---- MODULE Spec2Model ----
(***************************************************************************)
(* A model of mkp-builder.py, the CheckMK MKP package builder: the         *)
(* resolution of the build configuration (command line, .mkp-builderrc,    *)
(* DEFAULT_CONFIG), the validation steps, the scoped build directory, the  *)
(* file collector, the section archives, the two manifests and the final   *)
(* package.                                                                *)
(*                                                                         *)
(* Strings are sequences of one-token strings (<<"1", ".", "2">>), so that *)
(* prefix, substring, regular-expression and quoting operations are        *)
(* computed on them as the code computes them.  A Python value that may be *)
(* None is None == <<>> or Some(v) == <<v>>.  A Python dict is a function  *)
(* whose DOMAIN is the set of keys the dict holds.                         *)
(***************************************************************************)
EXTENDS Integers, Sequences, FiniteSets, TLC

VARIABLES
    pc,         \* the statement of main()/build() that runs next
    args,       \* argparse's namespace (main, l.475)
    rc,         \* the .mkp-builderrc found by load_config: None or Some(lines)
    fs,         \* the project tree under work_dir
    config,     \* builder.config
    files,      \* build()'s local `files`: None or Some(the collected map)
    build_dir,  \* whether the temporary build directory exists
    tars,       \* the section archives in build_dir: name -> stored names
    meta,       \* the manifests in build_dir: name -> serialized form
    out_dir,    \* the output directory: path -> package file
    pending,    \* the exception propagating out of build(), if any
    result,     \* how main() ended
    steps,      \* the calls build() has made so far, with their outcomes
    removals    \* files another process has removed during the build

vars == <<pc, args, rc, fs, config, files, build_dir, tars, meta, out_dir,
          pending, result, steps, removals>>

----------------------------------------------------------------------------
(* Python values *)

None == <<>>

Some(v) == <<v>>

\* Python's truth value of an optional string: None and '' are false.
Truthy(o) == o # None /\ o[1] # <<>>

\* d[k] = v on a dict.
Put(d, k, v) == [x \in (DOMAIN d) \cup {k} |-> IF x = k THEN v ELSE d[x]]

\* d.get(k, dflt)
Get(d, k, dflt) == IF k \in DOMAIN d THEN d[k] ELSE dflt

\* Python's `sub in s` on strings.
Contains(s, sub) ==
    \E i \in 0..(Len(s) - Len(sub)) : SubSeq(s, i + 1, i + Len(sub)) = sub

StartsWith(s, p) == Len(p) <= Len(s) /\ SubSeq(s, 1, Len(p)) = p

EndsWith(s, p) == Len(p) <= Len(s) /\ SubSeq(s, Len(s) - Len(p) + 1, Len(s)) = p

----------------------------------------------------------------------------
(* Configuration: DEFAULT_CONFIG, main()'s flags, load_config, set_defaults *)

DEFAULT_CONFIG ==
    [cmk_min_version |-> <<"2.3.0p1">>,
     cmk_packaged_version |-> <<"2.3.0p34">>,
     validate_python |-> TRUE,
     output_dir |-> <<".">>,
     verbose |-> FALSE]

\* The string-valued flags of create_parser and the config key each one sets.
FlagKey ==
    [version |-> "version", name |-> "name", title |-> "title",
     author |-> "author", description |-> "description",
     cmk_min |-> "cmk_min_version", cmk_packaged |-> "cmk_packaged_version",
     download_url |-> "download_url",
     version_usable_until |-> "version_usable_until",
     output_dir |-> "output_dir"]

\* The order in which main() tests the flags.
FlagOrder ==
    <<"version", "name", "title", "author", "description", "cmk_min",
      "cmk_packaged", "download_url", "version_usable_until", "output_dir">>

RECURSIVE ApplyFlags(_, _, _)
ApplyFlags(cfg, a, i) ==
    IF i > Len(FlagOrder) THEN cfg
    ELSE LET f == FlagOrder[i] IN
         ApplyFlags(IF Truthy(a[f]) THEN Put(cfg, FlagKey[f], a[f][1]) ELSE cfg,
                    a, i + 1)

\* main(), l.481-510: the flags written into builder.config.
ApplyArgs(cfg, a) ==
    LET c1 == ApplyFlags(cfg, a, 1)
        c2 == IF a.validate THEN Put(c1, "validate_python", TRUE)
              ELSE IF a.no_validate THEN Put(c1, "validate_python", FALSE)
              ELSE c1
    IN  IF a.verbose THEN Put(c2, "verbose", TRUE) ELSE c2

\* load_config's key_map.
key_map ==
    [PACKAGE_NAME |-> "name", PACKAGE_TITLE |-> "title",
     PACKAGE_AUTHOR |-> "author", PACKAGE_DESCRIPTION |-> "description",
     CMK_MIN_VERSION |-> "cmk_min_version",
     CMK_PACKAGED_VERSION |-> "cmk_packaged_version",
     DOWNLOAD_URL |-> "download_url",
     VERSION_USABLE_UNTIL |-> "version_usable_until",
     VALIDATE_PYTHON |-> "validate_python"]

\* load_config, l.102-104: one pair of surrounding quotes is removed.
StripQuotes(v) ==
    IF Len(v) >= 1 /\ ((v[1] = "\"" /\ v[Len(v)] = "\"") \/
                       (v[1] = "'" /\ v[Len(v)] = "'"))
    THEN SubSeq(v, 2, Len(v) - 1)
    ELSE v

\* str.lower() on the tokens a flag value is written with.
LowerTok(t) ==
    CASE t = "YES" -> "yes"
      [] t = "Yes" -> "yes"
      [] t = "TRUE" -> "true"
      [] t = "True" -> "true"
      [] OTHER -> t

Lower(v) == [i \in 1..Len(v) |-> LowerTok(v[i])]

\* load_config, l.119-124: one key=value line applied to the config.
ApplyLine(cfg, line) ==
    IF line.key \in DOMAIN key_map
    THEN LET k == key_map[line.key]
             v == StripQuotes(line.value)
         IN  IF k = "validate_python"
             THEN Put(cfg, k, Lower(v) \in {<<"yes">>, <<"true">>, <<"1">>})
             ELSE Put(cfg, k, v)
    ELSE cfg

RECURSIVE ApplyLines(_, _, _)
ApplyLines(cfg, lines, n) ==
    IF n = 0 THEN cfg ELSE ApplyLine(ApplyLines(cfg, lines, n - 1), lines[n])

----------------------------------------------------------------------------
(* The project tree.  A path is a sequence of segments, each a string.     *)
(* fs.files are the regular files (all under local/), fs.local says        *)
(* whether local/ exists, fs.bad are the files ast.parse rejects, fs.exec  *)
(* the files with the executable bit, fs.name is work_dir.name.            *)

Seg(t) == <<t>>

LocalDir == <<Seg("local")>>

\* collect_files l.233 / create_package_tars l.283
AgentsDir == LocalDir \o <<Seg("share"), Seg("check_mk"), Seg("agents")>>

\* collect_files l.261 / create_package_tars l.293
LibDir == LocalDir \o <<Seg("lib"), Seg("python3")>>

\* collect_files l.241 / create_package_tars l.288
AddonsDir == LibDir \o <<Seg("cmk_addons"), Seg("plugins")>>

\* collect_files l.262
BakeryDir ==
    LibDir \o <<Seg("cmk"), Seg("base"), Seg("cee"), Seg("plugins"), Seg("bakery")>>

\* collect_files l.252
FlatSubdirs == <<"agent_based", "checkman", "graphing", "rulesets">>

\* d is a proper ancestor of p.
Under(d, p) == Len(d) < Len(p) /\ SubSeq(p, 1, Len(d)) = d

IsFile(f, p) == p \in f.files

IsDir(f, p) == (p = LocalDir /\ f.local) \/ (\E q \in f.files : Under(p, q))

\* Path.exists()
Exists(f, p) == IsFile(f, p) \/ IsDir(f, p)

\* Path.name
BaseName(p) == p[Len(p)]

\* Path.relative_to(base), as Path.parts
RelativeTo(p, base) == SubSeq(p, Len(base) + 1, Len(p))

\* str(path): the segments joined by "/".
RECURSIVE PathStr(_)
PathStr(p) ==
    IF p = <<>> THEN <<>>
    ELSE IF Len(p) = 1 THEN p[1]
    ELSE p[1] \o <<"/">> \o PathStr(Tail(p))

\* Path(string).parts of a relative path string: "/" separates, empty
\* segments are dropped.
RECURSIVE SplitFrom(_, _, _)
SplitFrom(s, i, cur) ==
    IF i > Len(s) THEN (IF cur = <<>> THEN <<>> ELSE <<cur>>)
    ELSE IF s[i] = "/"
         THEN (IF cur = <<>> THEN <<>> ELSE <<cur>>) \o SplitFrom(s, i + 1, <<>>)
         ELSE SplitFrom(s, i + 1, Append(cur, s[i]))

PathParts(s) == SplitFrom(s, 1, <<>>)

\* The orders in which a directory walk may report the files of the tree.
Orderings(S) ==
    {o \in [1..Cardinality(S) -> S] : \A i, j \in DOMAIN o : i # j => o[i] # o[j]}

\* [p for p in d.rglob('*') if p.is_file()], the walk reporting in order o.
RGlobFiles(f, d, o) == SelectSeq(o, LAMBDA p : p \in f.files /\ Under(d, p))

\* auto_detect_package_name
auto_detect_package_name(f) ==
    LET plugins_dir == AgentsDir \o <<Seg("plugins")>>
        plugins == {p \in f.files : /\ Len(p) = Len(plugins_dir) + 1
                                    /\ Under(plugins_dir, p)
                                    /\ p \in f.exec}
    IN  IF Exists(f, plugins_dir) /\ Cardinality(plugins) = 1
        THEN BaseName(CHOOSE p \in plugins : TRUE)
        ELSE IF f.name # <<>> THEN f.name ELSE <<"unknown_package">>

\* set_defaults
set_defaults(cfg, f) ==
    LET c1 == IF "name" \notin DOMAIN cfg
              THEN Put(cfg, "name", auto_detect_package_name(f)) ELSE cfg
        c2 == IF "title" \notin DOMAIN c1 THEN Put(c1, "title", c1["name"]) ELSE c1
    IN  [k \in (DOMAIN c2) \cup (DOMAIN DEFAULT_CONFIG) |->
            IF k \in DOMAIN c2 THEN c2[k] ELSE DEFAULT_CONFIG[k]]

----------------------------------------------------------------------------
(* Validation *)

Digit == {"0", "1", "2", "3", "4", "5", "6", "7", "8", "9"}

AllDigits(s, a, b) == \A i \in a..b : s[i] \in Digit

\* re.match(r'^\d+\.\d+\.\d+', v): a leading digits "." digits "." digits;
\* what follows is not looked at.
MatchVersion(v) ==
    \E a, b \in 1..Len(v) :
        /\ a > 1 /\ AllDigits(v, 1, a - 1)
        /\ v[a] = "."
        /\ b > a + 1 /\ AllDigits(v, a + 1, b - 1)
        /\ v[b] = "."
        /\ b + 1 <= Len(v) /\ v[b + 1] \in Digit

\* re.search with the same pattern: the triplet may start anywhere.
SearchVersion(v) == \E i \in 1..Len(v) : MatchVersion(SubSeq(v, i, Len(v)))

\* validate_parameters, were the version tested with re.search.
validate_parameters_search(cfg, f) ==
    IF Get(cfg, "version", <<>>) = <<>> THEN "version_required"
    ELSE IF Get(cfg, "name", <<>>) = <<>> THEN "name_required"
    ELSE IF ~SearchVersion(cfg["version"]) THEN "invalid_version"
    ELSE IF ~Exists(f, LocalDir) THEN "no_local_dir"
    ELSE "none"

\* validate_parameters: the error it raises, "none" when it returns.
validate_parameters(cfg, f) ==
    IF Get(cfg, "version", <<>>) = <<>> THEN "version_required"
    ELSE IF Get(cfg, "name", <<>>) = <<>> THEN "name_required"
    ELSE IF ~MatchVersion(cfg["version"]) THEN "invalid_version"
    ELSE IF ~Exists(f, LocalDir) THEN "no_local_dir"
    ELSE "none"

\* local_dir.rglob('*.py')
PythonFiles(f) == {p \in f.files : Under(LocalDir, p) /\ EndsWith(BaseName(p), <<".py">>)}

\* validate_python_files: the number of files counted in `errors`
\* (0 when validation is skipped).
SyntaxErrors(cfg, f) ==
    IF ~Get(cfg, "validate_python", FALSE) THEN 0
    ELSE Cardinality({p \in PythonFiles(f) : p \in f.bad})

\* validate_python_files: "syntax_errors" when it raises, "none" when it returns.
validate_python_files(cfg, f) ==
    IF SyntaxErrors(cfg, f) > 0 THEN "syntax_errors" ELSE "none"

----------------------------------------------------------------------------
(* The file collector *)

\* [str(p.relative_to(base)) for p in paths]
RelStrs(paths, base) == [i \in 1..Len(paths) |-> PathStr(RelativeTo(paths[i], base))]

\* collect_files l.233-238
CollectAgents(f, o) ==
    IF Exists(f, AgentsDir) THEN RelStrs(RGlobFiles(f, AgentsDir, o), AgentsDir) ELSE <<>>

\* collect_files l.244-249: the package-specific directory
CollectPkgDir(f, o, package_name) ==
    LET pkg_dir == AddonsDir \o <<package_name>>
    IN  IF Exists(f, pkg_dir) THEN RelStrs(RGlobFiles(f, pkg_dir, o), AddonsDir) ELSE <<>>

\* The filter of the flat-structure walk, were it to test the start of the
\* file name only.
FlatMatchPrefix(package_name, p) == StartsWith(BaseName(p), package_name)

\* collect_files l.256: the filter of the flat-structure walk
FlatMatch(package_name, p) == Contains(BaseName(p), package_name)

\* collect_files l.252-258: the flat-structure subdirectories, from the i-th on
RECURSIVE CollectFlat(_, _, _, _)
CollectFlat(f, o, package_name, i) ==
    IF i > Len(FlatSubdirs) THEN <<>>
    ELSE LET sub_path == AddonsDir \o <<Seg(FlatSubdirs[i])>>
             here == IF Exists(f, sub_path)
                     THEN RelStrs(SelectSeq(RGlobFiles(f, sub_path, o),
                                            LAMBDA p : FlatMatch(package_name, p)),
                                  AddonsDir)
                     ELSE <<>>
         IN  here \o CollectFlat(f, o, package_name, i + 1)

\* collect_files l.241-258
CollectAddons(f, o, package_name) ==
    IF Exists(f, AddonsDir)
    THEN CollectPkgDir(f, o, package_name) \o CollectFlat(f, o, package_name, 1)
    ELSE <<>>

\* collect_files l.261-267
CollectLib(f, o, package_name) ==
    IF Exists(f, BakeryDir)
    THEN RelStrs(SelectSeq(RGlobFiles(f, BakeryDir, o),
                           LAMBDA p : Contains(BaseName(p), package_name)),
                 LibDir)
    ELSE <<>>

\* collect_files, the directory walks reporting in order o
collect_files(cfg, f, o) ==
    [agents |-> CollectAgents(f, o),
     cmk_addons_plugins |-> CollectAddons(f, o, cfg["name"]),
     lib |-> CollectLib(f, o, cfg["name"])]

----------------------------------------------------------------------------
(* The section archives *)

\* create_tar_file: the stored names, in the order added.
create_tar_file(f, base_dir, file_list) ==
    SelectSeq(file_list, LAMBDA rel : Exists(f, base_dir \o PathParts(rel)))

\* create_package_tars: the archives in the order written, with their base
\* directory and the group each one packs.
SectionTars ==
    <<[name |-> "agents.tar", base |-> AgentsDir, group |-> "agents"],
      [name |-> "cmk_addons_plugins.tar", base |-> AddonsDir,
       group |-> "cmk_addons_plugins"],
      [name |-> "lib.tar", base |-> LibDir, group |-> "lib"]>>

\* create_package_tars, stopped after the first n archives (n = 3: all).
create_package_tars(f, fl, n) ==
    [t \in {SectionTars[i].name : i \in 1..n} |->
        LET s == CHOOSE x \in {SectionTars[i] : i \in 1..n} : x.name = t
        IN  create_tar_file(f, s.base, fl[s.group])]

----------------------------------------------------------------------------
(* The manifests.  A manifest value is <<"str", s>>, <<"none">> or         *)
(* <<"dict", m>> with m a map from section to a list of strings; a value   *)
(* that cannot be read back is <<"error">>.  A written manifest is the     *)
(* sequence of its entries, each with the text written for its value.      *)

Sections == <<"agents", "cmk_addons_plugins", "lib">>

\* generate_metadata l.301-312
info_data(cfg, fl) ==
    <<[key |-> "author", val |-> <<"str", Get(cfg, "author", <<>>)>>],
      [key |-> "description", val |-> <<"str", Get(cfg, "description", <<>>)>>],
      [key |-> "download_url", val |-> <<"str", Get(cfg, "download_url", <<>>)>>],
      [key |-> "files", val |-> <<"dict", fl>>],
      [key |-> "name", val |-> <<"str", cfg["name"]>>],
      [key |-> "title", val |-> <<"str", cfg["title"]>>],
      [key |-> "version", val |-> <<"str", cfg["version"]>>],
      [key |-> "version.min_required", val |-> <<"str", cfg["cmk_min_version"]>>],
      [key |-> "version.packaged", val |-> <<"str", cfg["cmk_packaged_version"]>>],
      [key |-> "version.usable_until",
       val |-> IF Get(cfg, "version_usable_until", <<>>) = <<>>
               THEN <<"none">>
               ELSE <<"str", cfg["version_usable_until"]>>]>>

\* generate_metadata l.321 and l.326: f"'{value}'"
PyQuote(v) == <<"'">> \o v \o <<"'">>

\* json.dump's string encoder with ensure_ascii=False: the quote and the
\* backslash are escaped.
RECURSIVE JsonEscape(_)
JsonEscape(v) ==
    IF v = <<>> THEN <<>>
    ELSE (IF Head(v) \in {"\"", "\\"} THEN <<"\\", Head(v)>> ELSE <<Head(v)>>)
         \o JsonEscape(Tail(v))

JsonQuote(v) == <<"\"">> \o JsonEscape(v) \o <<"\"">>

\* The text written for one string in manifest fmt ("py": l.321/326,
\* "json": json.dump, l.338).
QuoteIn(fmt, v) == IF fmt = "py" THEN PyQuote(v) ELSE JsonQuote(v)

\* The text written for one manifest value in manifest fmt; None is
\* written None (l.319) or null (json.dump).
ValueText(val, fmt) ==
    IF val[1] = "none"
    THEN [kind |-> "scalar", text |-> <<IF fmt = "py" THEN "None" ELSE "null">>]
    ELSE IF val[1] = "str" THEN [kind |-> "scalar", text |-> QuoteIn(fmt, val[2])]
    ELSE [kind |-> "dict",
          text |-> [sec \in DOMAIN val[2] |->
                       [i \in 1..Len(val[2][sec]) |-> QuoteIn(fmt, val[2][sec][i])]]]

\* generate_metadata l.315-331: the info file
WriteInfo(data) ==
    [i \in 1..Len(data) |-> [key |-> data[i].key, body |-> ValueText(data[i].val, "py")]]

\* generate_metadata l.334-338: the info.json file
WriteJson(data) ==
    [i \in 1..Len(data) |-> [key |-> data[i].key, body |-> ValueText(data[i].val, "json")]]

\* Reading the manifests back.  Python's string literals: a backslash
\* before a quote or a backslash stands for that character, a backslash
\* before another character of the model's alphabet stays; an unescaped '
\* ends the literal; three quotes open a triple-quoted literal; adjacent
\* literals are concatenated.
RECURSIVE PyScan(_, _, _, _)
PyScan(t, i, acc, triple) ==
    IF i > Len(t) THEN <<"error">>
    ELSE IF triple /\ i + 2 <= Len(t) /\ SubSeq(t, i, i + 2) = <<"'", "'", "'">>
         THEN <<"ok", acc, i + 3>>
    ELSE IF ~triple /\ t[i] = "'" THEN <<"ok", acc, i + 1>>
    ELSE IF t[i] = "\\"
         THEN IF i + 1 > Len(t) THEN <<"error">>
              ELSE PyScan(t, i + 2,
                          IF t[i + 1] \in {"\\", "'", "\""}
                          THEN Append(acc, t[i + 1])
                          ELSE acc \o <<"\\", t[i + 1]>>,
                          triple)
    ELSE PyScan(t, i + 1, Append(acc, t[i]), triple)

RECURSIVE PyLiterals(_, _, _)
PyLiterals(t, i, acc) ==
    IF i > Len(t) THEN <<"str", acc>>
    ELSE IF t[i] # "'" THEN <<"error">>
    ELSE LET triple == i + 2 <= Len(t) /\ SubSeq(t, i, i + 2) = <<"'", "'", "'">>
             r == PyScan(t, IF triple THEN i + 3 ELSE i + 1, <<>>, triple)
         IN  IF r[1] = "error" THEN <<"error">>
             ELSE PyLiterals(t, r[3], acc \o r[2])

\* ast.literal_eval of the text of one scalar of the info file
PyParse(t) ==
    IF t = <<"None">> THEN <<"none">>
    ELSE IF t = <<>> THEN <<"error">>
    ELSE PyLiterals(t, 1, <<>>)

RECURSIVE JsonScan(_, _, _)
JsonScan(t, i, acc) ==
    IF i > Len(t) THEN <<"error">>
    ELSE IF t[i] = "\"" THEN (IF i = Len(t) THEN <<"str", acc>> ELSE <<"error">>)
    ELSE IF t[i] = "\\"
         THEN IF i + 1 <= Len(t) /\ t[i + 1] \in {"\\", "\"", "/"}
              THEN JsonScan(t, i + 2, Append(acc, t[i + 1]))
              ELSE <<"error">>
    ELSE JsonScan(t, i + 1, Append(acc, t[i]))

\* json.load of the text of one scalar of info.json
JsonParse(t) ==
    IF t = <<"null">> THEN <<"none">>
    ELSE IF t = <<>> \/ t[1] # "\"" THEN <<"error">>
    ELSE JsonScan(t, 2, <<>>)

\* One scalar text of a manifest in manifest fmt, read back.
ParseIn(fmt, t) == IF fmt = "py" THEN PyParse(t) ELSE JsonParse(t)

\* A written manifest read back: key -> value.
ReadBack(written, fmt) ==
    [k \in {written[i].key : i \in DOMAIN written} |->
        LET e == CHOOSE x \in {written[i] : i \in DOMAIN written} : x.key = k
        IN  IF e.body.kind = "scalar" THEN ParseIn(fmt, e.body.text)
            ELSE <<"dict",
                   [sec \in DOMAIN e.body.text |->
                       [i \in 1..Len(e.body.text[sec]) |-> ParseIn(fmt, e.body.text[sec][i])]]>>]

\* ast.literal_eval of the info file
ReadInfo(written) == ReadBack(written, "py")

\* json.load of the info.json file
ReadJson(written) == ReadBack(written, "json")

----------------------------------------------------------------------------
(* The package *)

\* The entries, were the section archives listed before the manifests.
PackageEntriesTarsFirst == <<"agents.tar", "cmk_addons_plugins.tar", "lib.tar", "info", "info.json">>

\* create_mkp_package l.352
PackageEntries == <<"info", "info.json", "agents.tar", "cmk_addons_plugins.tar", "lib.tar">>

\* The file name, were it joined with an underscore.
OutputFileNameUnderscore(cfg) == cfg["name"] \o <<"_">> \o cfg["version"] \o <<".mkp">>

\* create_mkp_package l.343: f"{name}-{version}.mkp"
OutputFileName(cfg) == cfg["name"] \o <<"-">> \o cfg["version"] \o <<".mkp">>

\* create_mkp_package l.343: output_dir / file name.  A name that starts
\* with "/" is an absolute path and replaces output_dir.
OutputFile(cfg) ==
    LET n == OutputFileName(cfg)
    IN  [root |-> IF n[1] = "/" THEN "/" ELSE "output_dir", parts |-> PathParts(n)]

\* tarfile.open(output_file, 'w:gz') can create the file: its directory is
\* output_dir itself (made at l.348) or "/".  The output directory starts
\* without subdirectories.
CanCreate(path) == Len(path.parts) = 1

\* create_mkp_package l.352-355: the entries added, given what build_dir holds
PackageMembers(t, m) ==
    SelectSeq(PackageEntries, LAMBDA e : e \in (DOMAIN t) \cup (DOMAIN m))

\* The package file after the first n entries were added.
PackageFile(t, m, n, closed) ==
    LET members == SubSeq(PackageMembers(t, m), 1, n)
    IN  [complete |-> closed,
         members |-> members,
         content |-> [e \in {members[i] : i \in 1..Len(members)} |->
                         IF e \in DOMAIN t THEN t[e] ELSE m[e]]]

----------------------------------------------------------------------------
(* main() and build(), one action per call *)

\* The statement after each one, were the manifests generated before the
\* section archives.
NextPcMetadataFirst(p) ==
    CASE p = "main" -> "load_config"
      [] p = "load_config" -> "set_defaults"
      [] p = "set_defaults" -> "validate_parameters"
      [] p = "validate_parameters" -> "validate_python_files"
      [] p = "validate_python_files" -> "TemporaryDirectory"
      [] p = "TemporaryDirectory" -> "collect_files"
      [] p = "collect_files" -> "generate_metadata"
      [] p = "generate_metadata" -> "create_package_tars"
      [] p = "create_package_tars" -> "create_mkp_package"
      [] p = "create_mkp_package" -> "exit_with"
      [] OTHER -> "done"

\* build() l.385-416 and main() l.477-520: the statement after each one.
NextPc(p) ==
    CASE p = "main" -> "load_config"
      [] p = "load_config" -> "set_defaults"
      [] p = "set_defaults" -> "validate_parameters"
      [] p = "validate_parameters" -> "validate_python_files"
      [] p = "validate_python_files" -> "TemporaryDirectory"
      [] p = "TemporaryDirectory" -> "collect_files"
      [] p = "collect_files" -> "create_package_tars"
      [] p = "create_package_tars" -> "generate_metadata"
      [] p = "generate_metadata" -> "create_mkp_package"
      [] p = "create_mkp_package" -> "exit_with"
      [] OTHER -> "done"

\* The calls inside the `with tempfile.TemporaryDirectory()` block.
InWith == {"collect_files", "create_package_tars", "generate_metadata",
           "create_mkp_package"}

\* The statement completed, and control moves on.
Proceed ==
    /\ pc' = NextPc(pc)
    /\ steps' = Append(steps, <<pc, "ok">>)
    /\ UNCHANGED <<pending, result>>

\* The exception a call ends with: "raised" by the call's own checks,
\* "io_error" from the file system, "interrupted" by KeyboardInterrupt.
ExceptionKind(outcome) == IF outcome = "interrupted" THEN "interrupted" ELSE "error"

\* An exception leaves the current statement: out of the with block through
\* TemporaryDirectory.__exit__, otherwise straight to main()'s handlers
\* (l.522-527).
Raise(outcome) ==
    /\ steps' = Append(steps, <<pc, outcome>>)
    /\ pending' = ExceptionKind(outcome)
    /\ IF pc \in InWith
       THEN pc' = "exit_with" /\ result' = result
       ELSE pc' = "done" /\ result' = ExceptionKind(outcome)

\* main() l.477-510
Main ==
    /\ pc = "main"
    /\ config' = ApplyArgs(config, args)
    /\ Proceed
    /\ UNCHANGED <<args, rc, fs, files, build_dir, tars, meta, out_dir, removals>>

\* load_config, called at build() l.385 without a file argument
LoadConfig ==
    /\ pc = "load_config"
    /\ config' = IF rc = None THEN config ELSE ApplyLines(config, rc[1], Len(rc[1]))
    /\ Proceed
    /\ UNCHANGED <<args, rc, fs, files, build_dir, tars, meta, out_dir, removals>>

\* set_defaults, build() l.389
SetDefaults ==
    /\ pc = "set_defaults"
    /\ config' = set_defaults(config, fs)
    /\ Proceed
    /\ UNCHANGED <<args, rc, fs, files, build_dir, tars, meta, out_dir, removals>>

\* validate_parameters, build() l.393
ValidateParameters ==
    /\ pc = "validate_parameters"
    /\ IF validate_parameters(config, fs) = "none" THEN Proceed ELSE Raise("raised")
    /\ UNCHANGED <<args, rc, fs, config, files, build_dir, tars, meta, out_dir, removals>>

\* validate_python_files, build() l.396
ValidatePythonFiles ==
    /\ pc = "validate_python_files"
    /\ IF validate_python_files(config, fs) = "none" THEN Proceed ELSE Raise("raised")
    /\ UNCHANGED <<args, rc, fs, config, files, build_dir, tars, meta, out_dir, removals>>

\* tempfile.TemporaryDirectory() entered, build() l.399
EnterBuildDir ==
    /\ pc = "TemporaryDirectory"
    /\ build_dir' = TRUE
    /\ Proceed
    /\ UNCHANGED <<args, rc, fs, config, files, tars, meta, out_dir, removals>>

\* collect_files, build() l.404
CollectFiles ==
    /\ pc = "collect_files"
    /\ \E o \in Orderings(fs.files) : files' = Some(collect_files(config, fs, o))
    /\ Proceed
    /\ UNCHANGED <<args, rc, fs, config, build_dir, tars, meta, out_dir, removals>>

\* create_package_tars, build() l.407
CreatePackageTars ==
    /\ pc = "create_package_tars"
    /\ tars' = create_package_tars(fs, files[1], Len(SectionTars))
    /\ Proceed
    /\ UNCHANGED <<args, rc, fs, config, files, build_dir, meta, out_dir, removals>>

\* generate_metadata, build() l.410
GenerateMetadata ==
    /\ pc = "generate_metadata"
    /\ LET data == info_data(config, files[1])
       IN  meta' = ("info" :> WriteInfo(data)) @@ ("info.json" :> WriteJson(data))
    /\ Proceed
    /\ UNCHANGED <<args, rc, fs, config, files, build_dir, tars, out_dir, removals>>

\* create_mkp_package, build() l.413
CreateMkpPackage ==
    /\ pc = "create_mkp_package"
    /\ LET path == OutputFile(config)
       IN  IF CanCreate(path)
           THEN /\ out_dir' = Put(out_dir, path,
                                  PackageFile(tars, meta, Len(PackageMembers(tars, meta)), TRUE))
                /\ Proceed
           ELSE /\ out_dir' = out_dir
                /\ Raise("raised")
    /\ UNCHANGED <<args, rc, fs, config, files, build_dir, tars, meta, removals>>

\* The build directory, were it removed only at the end of a build that
\* raised nothing.
BuildDirKeptOnException(exc) == exc # "none"

\* What TemporaryDirectory.__exit__ leaves of the build directory.
BuildDirAfterExit(exc) == FALSE

\* The end of the with block (build() l.399-413), then build()'s return
\* and main() l.516-527.
ExitBuildDir ==
    /\ pc = "exit_with"
    /\ build_dir' = BuildDirAfterExit(pending)
    /\ tars' = IF build_dir' THEN tars ELSE <<>>
    /\ meta' = IF build_dir' THEN meta ELSE <<>>
    /\ pc' = "done"
    /\ result' = IF pending = "none" THEN "ok" ELSE pending
    /\ UNCHANGED <<args, rc, fs, config, files, out_dir, pending, steps, removals>>

----------------------------------------------------------------------------
(* Failures and the environment *)

\* The number of files another process removes during one build.
MaxRemovals == 1

\* The statements of main() and build() during which the program runs.
Running == {"main", "load_config", "set_defaults", "validate_parameters",
            "validate_python_files", "TemporaryDirectory"} \cup InWith

\* The calls that read or write the file system outside a handler of their
\* own (load_config and validate_python_files catch what their reads raise).
IOSteps == {"TemporaryDirectory"} \cup InWith

\* What a call that is cut short has written so far.
CutShort ==
    /\ tars' \in IF pc = "create_package_tars"
                 THEN {create_package_tars(fs, files[1], n) : n \in 0..(Len(SectionTars) - 1)}
                 ELSE {tars}
    /\ meta' \in IF pc = "generate_metadata"
                 THEN {<<>>, "info" :> WriteInfo(info_data(config, files[1]))}
                 ELSE {meta}
    /\ out_dir' \in
         IF pc = "create_mkp_package" /\ CanCreate(OutputFile(config))
         THEN {out_dir}
              \cup {Put(out_dir, OutputFile(config), PackageFile(tars, meta, n, FALSE)) :
                       n \in 0..Len(PackageMembers(tars, meta))}
              \cup {Put(out_dir, OutputFile(config),
                        PackageFile(tars, meta, Len(PackageMembers(tars, meta)), TRUE))}
         ELSE {out_dir}

\* An OSError (or another Exception) raised inside the current call.
IOFailure ==
    /\ pc \in IOSteps
    /\ CutShort
    /\ Raise("io_error")
    /\ UNCHANGED <<args, rc, fs, config, files, build_dir, removals>>

\* KeyboardInterrupt raised inside the current call.
Interrupt ==
    /\ pc \in Running
    /\ CutShort
    /\ Raise("interrupted")
    /\ UNCHANGED <<args, rc, fs, config, files, build_dir, removals>>

\* Another process removes a file of the project tree after it was
\* collected, or a file of the build directory before it is packed.
EnvRemove ==
    /\ pc \in {"create_package_tars", "generate_metadata", "create_mkp_package"}
    /\ removals < MaxRemovals
    /\ removals' = removals + 1
    /\ \/ \E p \in fs.files :
            /\ fs' = [fs EXCEPT !.files = @ \ {p}, !.bad = @ \ {p}, !.exec = @ \ {p}]
            /\ UNCHANGED <<tars, meta>>
       \/ \E t \in DOMAIN tars :
            /\ tars' = [x \in (DOMAIN tars) \ {t} |-> tars[x]]
            /\ UNCHANGED <<fs, meta>>
       \/ \E m \in DOMAIN meta :
            /\ meta' = [x \in (DOMAIN meta) \ {m} |-> meta[x]]
            /\ UNCHANGED <<fs, tars>>
    /\ UNCHANGED <<pc, args, rc, config, files, build_dir, out_dir, pending, result, steps>>

----------------------------------------------------------------------------
(* The builds checked: the inputs of one run of main() *)

Line(k, v) == [key |-> k, value |-> v]

NoFlags ==
    [version |-> None, name |-> None, title |-> None, author |-> None,
     description |-> None, cmk_min |-> None, cmk_packaged |-> None,
     download_url |-> None, version_usable_until |-> None,
     output_dir |-> Some(<<".">>),
     validate |-> FALSE, no_validate |-> FALSE, verbose |-> FALSE]

\* --version values: empty, matching (bare, with a suffix, with two-digit
\* numbers, with a path separator in the suffix) and not matching.
VersionInputs ==
    {<<>>,
     <<"1", ".", "2", ".", "3">>,
     <<"1", ".", "2", ".", "3", "r", "c">>,
     <<"1", "0", ".", "0", ".", "1">>,
     <<"1", ".", "2", ".", "3", "/", "x">>,
     <<"1", ".", "2">>,
     <<"v", "1", ".", "2", ".", "3">>,
     <<"1", ".", ".", "2", ".", "3">>}

\* --name values
NameInputs == {None, Some(<<"my">>), Some(<<"a", "/", "my">>)}

\* --validate / --no-validate (mutually exclusive)
ValidateFlagInputs == {<<FALSE, FALSE>>, <<TRUE, FALSE>>, <<FALSE, TRUE>>}

ArgsInputs ==
    {[NoFlags EXCEPT !.version = Some(v), !.name = n,
                     !.validate = vf[1], !.no_validate = vf[2]] :
        v \in VersionInputs, n \in NameInputs, vf \in ValidateFlagInputs}

\* .mkp-builderrc: none, or the key=value lines read from it
RcInputs ==
    {None,
     Some(<<Line("PACKAGE_NAME", <<"\"", "other", "\"">>)>>),
     Some(<<Line("PACKAGE_NAME", <<>>), Line("PACKAGE_AUTHOR", <<"me">>)>>),
     Some(<<Line("VALIDATE_PYTHON", <<"no">>)>>),
     Some(<<Line("VALIDATE_PYTHON", <<"Yes">>), Line("UNKNOWN", <<"x">>)>>)}

PluginFile == AgentsDir \o <<Seg("plugins"), <<"my">>>>

PluginCacheFile == AgentsDir \o <<Seg("plugins"), Seg("__pycache__"), <<"my", ".pyc">>>>

CheckFile == AddonsDir \o <<Seg("agent_based"), <<"my", "_check", ".py">>>>

PkgDirFile == AddonsDir \o <<<<"my">>, <<"x", ".py">>>>

BakeryFile == BakeryDir \o <<<<"my", ".py">>>>

Tree(local, fl, bad, exec) ==
    [local |-> local, files |-> fl, bad |-> bad, exec |-> exec, name |-> <<"proj">>]

\* Project trees: without local/, with an empty local/, and with files in
\* the three section directories, with and without a syntax error.
TreeInputs ==
    {Tree(FALSE, {}, {}, {}),
     Tree(TRUE, {}, {}, {}),
     Tree(TRUE, {PluginFile, CheckFile}, {}, {PluginFile}),
     Tree(TRUE, {PluginFile, CheckFile}, {CheckFile}, {PluginFile}),
     Tree(TRUE, {PluginCacheFile, PkgDirFile, BakeryFile}, {}, {}),
     Tree(TRUE, {CheckFile, PkgDirFile}, {PkgDirFile}, {})}

\* The state main() starts build() from: MKPBuilder() constructed (l.63-66).
Fresh ==
    /\ pc = "main"
    /\ config = DEFAULT_CONFIG
    /\ files = None
    /\ build_dir = FALSE
    /\ tars = <<>>
    /\ meta = <<>>
    /\ out_dir = <<>>
    /\ pending = "none"
    /\ result = "running"
    /\ steps = <<>>
    /\ removals = 0

Init ==
    /\ args \in ArgsInputs
    /\ rc \in RcInputs
    /\ fs \in TreeInputs
    /\ Fresh

Next ==
    \/ Main
    \/ LoadConfig
    \/ SetDefaults
    \/ ValidateParameters
    \/ ValidatePythonFiles
    \/ EnterBuildDir
    \/ CollectFiles
    \/ CreatePackageTars
    \/ GenerateMetadata
    \/ CreateMkpPackage
    \/ ExitBuildDir
    \/ IOFailure
    \/ Interrupt
    \/ EnvRemove

Spec == Init /\ [][Next]_vars

----------------------------------------------------------------------------
(* Configuration resolution on its own: every setting that a flag and a    *)
(* .mkp-builderrc key can both supply, in every combination of tiers.      *)

\* The number of string flags given on one command line.
MaxFlags == 2

\* The number of key=value lines of one .mkp-builderrc.
MaxRcLines == 2

\* The string settings: flag -> .mkp-builderrc key.
RcKey ==
    [name |-> "PACKAGE_NAME", title |-> "PACKAGE_TITLE", author |-> "PACKAGE_AUTHOR",
     description |-> "PACKAGE_DESCRIPTION", cmk_min |-> "CMK_MIN_VERSION",
     cmk_packaged |-> "CMK_PACKAGED_VERSION", download_url |-> "DOWNLOAD_URL",
     version_usable_until |-> "VERSION_USABLE_UNTIL"]

StringFlags == DOMAIN RcKey

RECURSIVE SubsetsUpTo(_, _)
SubsetsUpTo(S, n) ==
    IF n = 0 THEN {{}}
    ELSE LET smaller == SubsetsUpTo(S, n - 1)
         IN  smaller \cup {T \cup {x} : T \in smaller, x \in S}

RECURSIVE SeqsUpTo(_, _)
SeqsUpTo(S, n) ==
    IF n = 0 THEN {<<>>}
    ELSE LET shorter == SeqsUpTo(S, n - 1)
         IN  shorter \cup {Append(q, x) : q \in shorter, x \in S}

ConfigArgsInputs ==
    {[f \in DOMAIN NoFlags |->
         IF f \in given THEN Some(<<"cli">>)
         ELSE IF f = "version" THEN Some(<<"1", ".", "2", ".", "3">>)
         ELSE IF f = "validate" THEN vf[1]
         ELSE IF f = "no_validate" THEN vf[2]
         ELSE NoFlags[f]] :
        given \in SubsetsUpTo(StringFlags, MaxFlags), vf \in ValidateFlagInputs}

ConfigRcLines ==
    {Line(RcKey[f], <<"rc">>) : f \in StringFlags}
    \cup {Line("VALIDATE_PYTHON", <<"yes">>), Line("VALIDATE_PYTHON", <<"no">>)}

ConfigRcInputs == {None} \cup {Some(ls) : ls \in SeqsUpTo(ConfigRcLines, MaxRcLines)}

InitConfig ==
    /\ args \in ConfigArgsInputs
    /\ rc \in ConfigRcInputs
    /\ fs = Tree(TRUE, {PluginFile}, {}, {PluginFile})
    /\ Fresh

NextConfig ==
    \/ Main
    \/ LoadConfig
    \/ SetDefaults

SpecConfig == InitConfig /\ [][NextConfig]_vars

\* The lines of the .mkp-builderrc that set key k.
RcSets(k) == IF rc = None THEN {} ELSE {i \in DOMAIN rc[1] : rc[1][i].key = k}

\* The value the .mkp-builderrc gives key k: that of its last line for k.
RcValue(k) ==
    LET i == CHOOSE x \in RcSets(k) : \A y \in RcSets(k) : y <= x
    IN  StripQuotes(rc[1][i].value)

\* The value a string setting has without a flag and without a key: the
\* detected name, the name as title, DEFAULT_CONFIG's entry, or none.
Fallback(f, name) ==
    IF f = "name" THEN Some(auto_detect_package_name(fs))
    ELSE IF f = "title" THEN name
    ELSE IF FlagKey[f] \in DOMAIN DEFAULT_CONFIG THEN Some(DEFAULT_CONFIG[FlagKey[f]])
    ELSE None

\* CLI > config file > defaults, for one string setting.
ThreeTier(f, name) ==
    IF Truthy(args[f]) THEN args[f]
    ELSE IF RcSets(RcKey[f]) # {} THEN Some(RcValue(RcKey[f]))
    ELSE Fallback(f, name)

\* CLI > config file > defaults, for the validate flag.
ThreeTierValidate ==
    IF args.validate THEN TRUE
    ELSE IF args.no_validate THEN FALSE
    ELSE IF RcSets("VALIDATE_PYTHON") # {}
         THEN Lower(RcValue("VALIDATE_PYTHON")) \in {<<"yes">>, <<"true">>, <<"1">>}
    ELSE DEFAULT_CONFIG["validate_python"]

\* The value the build uses for a string setting.
Used(f) == IF FlagKey[f] \in DOMAIN config THEN Some(config[FlagKey[f]]) ELSE None

\* set_defaults has returned: the configuration is the one the build uses.
Resolved == \E i \in DOMAIN steps : steps[i] = <<"set_defaults", "ok">>

\* C1: once the configuration is resolved, every setting that a flag and a
\* .mkp-builderrc key can both supply has the command-line value when the
\* flag is given, otherwise the config file's value when the file sets the
\* key, otherwise the built-in default.
C1_CliOverConfigFileOverDefaults ==
    Resolved =>
        /\ \A f \in StringFlags : Used(f) = ThreeTier(f, ThreeTier("name", None))
        /\ config["validate_python"] = ThreeTierValidate

----------------------------------------------------------------------------
(* The file collector on its own: collect_files applied to every project   *)
(* tree of a bounded size, for every package name.                         *)

\* The number of regular files of a project tree.
MaxFiles == 2

\* The number of directories between a section directory and a file.
MaxDepth == 2

\* The calls of main() and build() in program order (l.477-510, l.385-413).
Calls ==
    <<"main", "load_config", "set_defaults", "validate_parameters",
      "validate_python_files", "TemporaryDirectory", "collect_files",
      "create_package_tars", "generate_metadata", "create_mkp_package">>

\* `steps` when build() has come to call number n without an exception.
StepsBefore(n) == [i \in 1..(n - 1) |-> <<Calls[i], "ok">>]

PackageNames == {<<"my">>, <<"agent_based">>}

\* Directory names: the package's, a flat-structure one, a build cache.
DirSegs == {<<"my">>, <<"agent_based">>, <<"__pycache__">>}

\* File names: one containing the first package name after another token,
\* one starting with the second.
FileNames == {<<"x", "my">>, <<"agent_based", ".py">>}

\* The file paths of the trees: under the add-ons directory below at most
\* MaxDepth directories, under the agents directory below at most MaxDepth
\* build-cache directories, and in the bakery directory.
PathUniverse ==
    {AddonsDir \o d \o <<n>> : d \in SeqsUpTo(DirSegs, MaxDepth), n \in FileNames}
    \cup {AgentsDir \o d \o <<<<"x", "my">>>> : d \in SeqsUpTo({<<"__pycache__">>}, MaxDepth)}
    \cup {BakeryDir \o <<n>> : n \in FileNames}

\* No path of the tree is both a regular file and a directory.
WellFormed(fl) == \A p, q \in fl : ~Under(p, q)

\* The elements of a list.
Range(q) == {q[i] : i \in DOMAIN q}

\* The trees of at most MaxFiles files.
CollectTrees ==
    {Tree(TRUE, fl, {}, {}) : fl \in {t \in SubsetsUpTo(PathUniverse, MaxFiles) : WellFormed(t)}}

\* The configuration build() has resolved for --version 1.2.3 --name n
\* without a .mkp-builderrc.
ResolvedConfig(a, f) == set_defaults(ApplyArgs(DEFAULT_CONFIG, a), f)

NamedArgs(n) == [NoFlags EXCEPT !.version = Some(<<"1", ".", "2", ".", "3">>), !.name = Some(n)]

\* build() about to call collect_files (l.404).
InitCollect ==
    /\ \E n \in PackageNames : args = NamedArgs(n)
    /\ rc = None
    /\ fs \in CollectTrees
    /\ config = ResolvedConfig(args, fs)
    /\ pc = "collect_files"
    /\ steps = StepsBefore(7)
    /\ build_dir = TRUE
    /\ files = None
    /\ tars = <<>>
    /\ meta = <<>>
    /\ out_dir = <<>>
    /\ pending = "none"
    /\ result = "running"
    /\ removals = 0

NextCollect == CollectFiles

SpecCollect == InitCollect /\ [][NextCollect]_vars

\* A relative path string has a build-cache directory among its segments.
HasCacheSegment(s) == \E i \in DOMAIN PathParts(s) : PathParts(s)[i] = <<"__pycache__">>

\* C7: collect_files never records, in the agents group or in the
\* addon-plugins group, a path with a build-cache directory segment, and
\* the agents group is exactly the regular files under
\* local/share/check_mk/agents/ whose relative path has no such segment.
C7_NoCacheSegmentCollected ==
    files # None =>
        /\ \A s \in Range(files[1].agents) \cup Range(files[1].cmk_addons_plugins) :
              ~HasCacheSegment(s)
        /\ Range(files[1].agents) =
              {s \in {PathStr(RelativeTo(p, AgentsDir)) : p \in {q \in fs.files : Under(AgentsDir, q)}} :
                  ~HasCacheSegment(s)}

\* Rule (a): the file lies under the subdirectory named after the package.
UnderPackageDir(p) == Under(AddonsDir \o <<config["name"]>>, p)

\* Rule (b): the file lies under agent_based, checkman, graphing or
\* rulesets and its name contains the package name.
FlatStructureFile(p) ==
    /\ \E d \in {"agent_based", "checkman", "graphing", "rulesets"} :
          Under(AddonsDir \o <<Seg(d)>>, p)
    /\ Contains(BaseName(p), config["name"])

\* C8: a regular file under local/lib/python3/cmk_addons/plugins/ is in the
\* addon-plugins group if and only if rule (a) or rule (b) holds for it, and
\* every member of the group is such a file's path relative to that
\* directory.
C8_AddonPluginsMembership ==
    files # None =>
        /\ \A p \in {q \in fs.files : Under(AddonsDir, q)} :
              PathStr(RelativeTo(p, AddonsDir)) \in Range(files[1].cmk_addons_plugins)
                 <=> (UnderPackageDir(p) \/ FlatStructureFile(p))
        /\ \A s \in Range(files[1].cmk_addons_plugins) :
              \E p \in fs.files : Under(AddonsDir, p) /\ s = PathStr(RelativeTo(p, AddonsDir))

\* A flat-structure file is collected although no directory named after the
\* package exists, next to a file that neither rule admits.
C8_Witness ==
    /\ files # None
    /\ config["name"] = <<"my">>
    /\ ~Exists(fs, AddonsDir \o <<config["name"]>>)
    /\ <<"agent_based", "/", "x", "my">> \in Range(files[1].cmk_addons_plugins)
    /\ AddonsDir \o <<<<"x", "my">>>> \in fs.files
    /\ <<"x", "my">> \notin Range(files[1].cmk_addons_plugins)

\* No string occurs twice in a list.
NoDuplicates(q) == \A i, j \in DOMAIN q : i # j => q[i] # q[j]

\* C11: in the map returned by collect_files no relative path occurs twice
\* in the list of a group, for every tree and every package name, a package
\* name equal to agent_based, checkman, graphing or rulesets included.
C11_PathsUniqueWithinGroup ==
    files # None =>
        /\ NoDuplicates(files[1].agents)
        /\ NoDuplicates(files[1].cmk_addons_plugins)
        /\ NoDuplicates(files[1].lib)

----------------------------------------------------------------------------
(* The metadata generator on its own: generate_metadata applied to         *)
(* configurations whose strings hold quote and backslash characters.       *)

\* The length of the strings given for the name, the author and the title.
MaxStrLen == 2

\* A letter, the two quote characters and the backslash.
MetaChars == {"z", "'", "\"", "\\"}

MetaStrings == SeqsUpTo(MetaChars, MaxStrLen)

MetaArgsInputs ==
    {[NoFlags EXCEPT !.version = Some(<<"1", ".", "2", ".", "3">>),
                     !.name = Some(n), !.author = a, !.version_usable_until = u] :
        n \in MetaStrings \ {<<>>},
        a \in {None} \cup {Some(x) : x \in MetaStrings},
        u \in {None, Some(<<"2.4.0">>)}}

\* build() about to call generate_metadata (l.410) in a project with one
\* agent plugin.
InitMeta ==
    /\ args \in MetaArgsInputs
    /\ rc = None
    /\ fs = Tree(TRUE, {PluginFile}, {}, {PluginFile})
    /\ config = ResolvedConfig(args, fs)
    /\ pc = "generate_metadata"
    /\ steps = StepsBefore(9)
    /\ build_dir = TRUE
    /\ files = Some(collect_files(config, fs, <<PluginFile>>))
    /\ tars = create_package_tars(fs, files[1], Len(SectionTars))
    /\ meta = <<>>
    /\ out_dir = <<>>
    /\ pending = "none"
    /\ result = "running"
    /\ removals = 0

NextMeta == GenerateMetadata

SpecMeta == InitMeta /\ [][NextMeta]_vars

\* C5: the info manifest and the info.json manifest written by
\* generate_metadata, read back, give the same keys with the same values,
\* whatever characters the strings hold.
C5_ManifestsReadBackEqual ==
    {"info", "info.json"} \subseteq DOMAIN meta =>
        ReadInfo(meta["info"]) = ReadJson(meta["info.json"])

----------------------------------------------------------------------------
(* Properties of whole builds (specification Spec) *)

Last(q) == q[Len(q)]

\* The build was not cut short by an I/O error or an interrupt.
NoFault == \A i \in DOMAIN steps : steps[i][2] \notin {"io_error", "interrupted"}

\* C2: every package file in the output directory is fully written, in
\* every state, also after a failure inside create_mkp_package.
C2_NoPartialPackage == \A p \in DOMAIN out_dir : out_dir[p].complete

\* The inputs that validation must reject: no version, a version without a
\* leading MAJOR.MINOR.PATCH, an empty name, no local/, or (validation on)
\* a Python file under local/ with a syntax error.
InvalidBuild ==
    \/ Get(config, "version", <<>>) = <<>>
    \/ ~MatchVersion(config["version"])
    \/ config["name"] = <<>>
    \/ ~fs.local
    \/ /\ config["validate_python"]
       /\ \E p \in fs.files : EndsWith(BaseName(p), <<".py">>) /\ p \in fs.bad

\* C3: with such inputs build() fails before the build directory is
\* created and before any section archive, manifest or package is written,
\* and no step after validation runs.
C3_InvalidInputsFailBeforeWorkspace ==
    (Resolved /\ InvalidBuild) =>
        /\ ~build_dir
        /\ files = None
        /\ DOMAIN tars = {} /\ DOMAIN meta = {} /\ DOMAIN out_dir = {}
        /\ \A i \in DOMAIN steps :
              steps[i][1] \in {"main", "load_config", "set_defaults",
                               "validate_parameters", "validate_python_files"}
        /\ pc \in {"validate_parameters", "validate_python_files", "done"}
        /\ pc = "done" => result # "ok"

\* A build that the syntax check has stopped.
C3_Witness ==
    /\ pc = "done"
    /\ result = "error"
    /\ Last(steps) = <<"validate_python_files", "raised">>
    /\ InvalidBuild

\* C4: when build() has terminated, the build directory and everything in
\* it are gone, however build() ended.
C4_WorkspaceRemovedOnEveryExit ==
    pc = "done" => ~build_dir /\ DOMAIN tars = {} /\ DOMAIN meta = {}

\* A build interrupted while the section archives were being written.
C4_Witness ==
    /\ pc = "done"
    /\ result = "interrupted"
    /\ Last(steps) = <<"create_package_tars", "interrupted">>
    /\ ~build_dir

\* The package the claim expects: {name}-{version}.mkp, directly in the
\* output directory.
ExpectedPackage ==
    [root |-> "output_dir",
     parts |-> <<config["name"] \o <<"-">> \o config["version"] \o <<".mkp">>>>]

\* C6 as stated: with a version that matches the pattern and local/
\* present, the build succeeds and leaves {name}-{version}.mkp in the output
\* directory (builds cut short by an I/O error or an interrupt left aside).
C6_ValidVersionBuildSucceeds ==
    (pc = "done" /\ NoFault /\ Resolved
        /\ Get(config, "version", <<>>) # <<>> /\ MatchVersion(config["version"])
        /\ fs.local) =>
        /\ result = "ok"
        /\ ExpectedPackage \in DOMAIN out_dir

\* C6 as amended: with, in addition, a non-empty name, no path separator in
\* name or version, and a syntax check that passes or is disabled, the
\* build succeeds and leaves exactly {name}-{version}.mkp, fully written,
\* whose info.json records that name and that version.
C6_ValidBuildProducesNamedPackage ==
    (pc = "done" /\ NoFault /\ Resolved /\ ~InvalidBuild
        /\ "/" \notin Range(config["name"]) \cup Range(config["version"])) =>
        /\ result = "ok"
        /\ DOMAIN out_dir = {ExpectedPackage}
        /\ out_dir[ExpectedPackage].complete
        /\ "info.json" \in Range(out_dir[ExpectedPackage].members) =>
              LET m == ReadJson(out_dir[ExpectedPackage].content["info.json"])
              IN  m["name"] = <<"str", config["name"]>>
                  /\ m["version"] = <<"str", config["version"]>>

\* A finished build for a version with a suffix after the triplet.
C6_Witness ==
    /\ pc = "done"
    /\ result = "ok"
    /\ NoFault
    /\ config["version"] = <<"1", ".", "2", ".", "3", "r", "c">>
    /\ ExpectedPackage \in DOMAIN out_dir
    /\ "info.json" \in Range(out_dir[ExpectedPackage].members)

\* The order the claim fixes for the entries of the package.
FixedEntryOrder == <<"info", "info.json", "agents.tar", "cmk_addons_plugins.tar", "lib.tar">>

Position(q, x) == CHOOSE i \in DOMAIN q : q[i] = x

\* C9: a package holds only entries of the fixed list, in the order of the
\* list; a finished create_mkp_package has added exactly those whose file
\* is in the build directory; and it raises over the path of the package
\* only, never over a missing entry.
C9_PackageEntriesInFixedOrder ==
    /\ \A p \in DOMAIN out_dir :
          LET m == out_dir[p].members
          IN  /\ Range(m) \subseteq Range(FixedEntryOrder)
              /\ \A i, j \in DOMAIN m :
                    i < j => Position(FixedEntryOrder, m[i]) < Position(FixedEntryOrder, m[j])
    /\ (pc = "exit_with" /\ pending = "none") =>
          /\ ExpectedPackage \in DOMAIN out_dir
          /\ out_dir[ExpectedPackage].complete
          /\ out_dir[ExpectedPackage].members =
                SelectSeq(FixedEntryOrder, LAMBDA e : e \in (DOMAIN tars) \cup (DOMAIN meta))
    /\ (pc = "exit_with" /\ Last(steps) = <<"create_mkp_package", "raised">>) =>
          "/" \in Range(config["name"]) \cup Range(config["version"])

\* A successful build whose package lacks an entry that was removed from
\* the build directory.
C9_Witness ==
    /\ pc = "done"
    /\ result = "ok"
    /\ removals > 0
    /\ ExpectedPackage \in DOMAIN out_dir
    /\ out_dir[ExpectedPackage].members = <<"info", "info.json", "cmk_addons_plugins.tar", "lib.tar">>

\* The step order the claim fixes, after the configuration is resolved.
FixedStepOrder ==
    <<"main", "load_config", "set_defaults", "validate_parameters",
      "validate_python_files", "TemporaryDirectory", "collect_files",
      "create_package_tars", "generate_metadata", "create_mkp_package">>

\* C10: the calls made so far are a prefix of the fixed order, each but the
\* last having completed; the next call is the successor of the last; the
\* assembler starts only after the three section archives and the two
\* manifests were written; a build that succeeds has made every call.
C10_StepsInFixedOrder ==
    /\ Len(steps) <= Len(FixedStepOrder)
    /\ \A i \in DOMAIN steps :
          /\ steps[i][1] = FixedStepOrder[i]
          /\ i < Len(steps) => steps[i][2] = "ok"
    /\ pc \in Running =>
          /\ pc = FixedStepOrder[Len(steps) + 1]
          /\ steps # <<>> => Last(steps)[2] = "ok"
    /\ pc = "create_mkp_package" =>
          Cardinality((DOMAIN tars) \cup (DOMAIN meta)) + removals >= Len(FixedEntryOrder)
    /\ (pc = "done" /\ result = "ok") =>
          Len(steps) = Len(FixedStepOrder) /\ Last(steps)[2] = "ok"

\* A build that made every call and succeeded.
C10_Witness ==
    /\ pc = "done"
    /\ result = "ok"
    /\ Len(steps) = Len(FixedStepOrder)
    /\ removals = 0

\* The paths the info.json manifest lists for a group.
ManifestPaths(group) == Range(ReadJson(meta["info.json"])["files"][2][group])

\* C12: when create_tar_file is about to archive the groups, every path
\* collect_files recorded exists under its group's base directory, also
\* when another process has removed files since the discovery; hence every
\* path the manifest lists for a group has an entry in that group's section
\* archive.
C12_RecordedPathsExistAtArchiving ==
    \A i \in DOMAIN SectionTars :
        LET sec == SectionTars[i]
        IN  /\ (pc = "create_package_tars" /\ files # None) =>
                  \A rel \in Range(files[1][sec.group]) :
                      Exists(fs, sec.base \o PathParts(rel))
            /\ (sec.name \in DOMAIN tars /\ "info.json" \in DOMAIN meta) =>
                  ManifestPaths(sec.group) \subseteq Range(tars[sec.name])

====
